---------------------------- MODULE Spec2Model ----------------------------
(***************************************************************************)
(* A model of syntheseus' reaction-model interface                         *)
(* (syntheseus/interface/models.py) and of the LocalRetro adapter          *)
(* (syntheseus/reaction_prediction/inference/local_retro.py).              *)
(*                                                                         *)
(* Conventions.                                                            *)
(*  - An Optional[...] value is a sequence of length 0 (None) or 1.        *)
(*  - A float is an integer number of thousandths (0.5 is 500).            *)
(*  - The outcome of a Python call is a record: it returned a value or it  *)
(*    raised an exception.                                                 *)
(***************************************************************************)
EXTENDS Integers, Sequences, FiniteSets, TLC

VARIABLES
    pred,       \* the Prediction made by the last constructor call (Optional)
    plist,      \* the PredictionList made by the last constructor call (Optional)
    last,       \* the operation just performed on a record, and its outcome
    model_dir,  \* the directory given to LocalRetroModel.__init__
    ipc,        \* position of LocalRetroModel.__init__
    weights,    \* self.model: the loaded LocalRetro model (Optional)
    args,       \* self.args: top_k and raw_predictions, shared by all calls
    cpc,        \* position of LocalRetroModel.__call__
    call,       \* the running call's arguments: inputs and num_results
    idx,        \* loop index of the running loop of _build_batch_predictions
    batch_predictions, \* local list of _build_batch_predictions
    outcome,    \* outcome of the last finished __call__ (Optional)
    prev,       \* how the call before the running one ended, and what it left
    queried     \* the last is_forward()/is_backward() answers (Optional)

recvars == <<pred, plist, last>>
adaptervars == <<model_dir, ipc, weights, args, cpc, call, idx,
                 batch_predictions, outcome, prev, queried>>
vars == <<pred, plist, last, model_dir, ipc, weights, args, cpc, call, idx,
          batch_predictions, outcome, prev, queried>>

----------------------------------------------------------------------------
(* Bounds of the model. *)

MaxPreds == 2
MaxResults == 2
MaxInputs == 2
MaxAvail == 2
MaxFiles == 2

----------------------------------------------------------------------------
(* Python values. *)

None == <<>>
Some(v) == <<v>>
IsSet(x) == x # <<>>

Return(v) == [kind |-> "return", val |-> <<v>>, err |-> ""]
Raise(e) == [kind |-> "raise", val |-> <<>>, err |-> e]

Min(a, b) == IF a <= b THEN a ELSE b
Max(a, b) == IF a >= b THEN a ELSE b

\* Floats the model constructs records from, in thousandths: -0.693, 0.0,
\* 0.5, 1.5 and 710.0.
Floats == {-693, 0, 500, 1500, 710000}
OptFloats == {None} \cup {Some(f) : f \in Floats}

Molecules == {"A", "B"}
Outputs == {"r1", "r2"}

\* math.exp: e^x to the nearest thousandth; OverflowError above ~709.78.
math_exp(x) ==
    IF x > 709782 THEN Raise("OverflowError: math range error")
    ELSE Return(CASE x = -693 -> 500
                  [] x = 0 -> 1000
                  [] x = 500 -> 1649
                  [] x = 1500 -> 4482)

\* math.log: ln x to the nearest thousandth; ValueError for x <= 0.
math_log(x) ==
    IF x <= 0 THEN Raise("ValueError: math domain error")
    ELSE Return(CASE x = 500 -> -693
                  [] x = 1000 -> 0
                  [] x = 1500 -> 405
                  [] x = 710000 -> 6565)

----------------------------------------------------------------------------
(* class Prediction *)

MissingProb == "ValueError: Prediction does not have associated probability or log prob value."
MissingLogProb == "ValueError: Prediction does not have associated log prob or probability value."

\* A mutant of the validator: keeps the probability and drops the log_prob.
check_keeps_probability(values) ==
    Return([values EXCEPT !.log_prob = IF IsSet(values.probability) THEN None ELSE @])

check_at_most_one_source_prob(values) ==
    IF IsSet(values.probability) /\ IsSet(values.log_prob)
    THEN Raise("ValueError: Probability can be stored as probability or log probability, not both")
    ELSE Return(values)

\* Prediction(**values): pydantic runs the root validator and turns its
\* ValueError into a ValidationError; no object is made then.
PredictionInit(values) ==
    LET r == check_at_most_one_source_prob(values)
    IN IF r.kind = "raise" THEN Raise("ValidationError") ELSE Return(r.val[1])

\* A mutant of get_prob: returns the log-probability as it is.
get_prob_no_exp(self) ==
    IF IsSet(self.probability) THEN Return(self.probability[1])
    ELSE IF IsSet(self.log_prob) THEN Return(self.log_prob[1])
    ELSE Raise(MissingProb)

get_prob(self) ==
    IF IsSet(self.probability) THEN Return(self.probability[1])
    ELSE IF IsSet(self.log_prob) THEN math_exp(self.log_prob[1])
    ELSE Raise(MissingProb)

get_log_prob(self) ==
    IF IsSet(self.log_prob) THEN Return(self.log_prob[1])
    ELSE IF IsSet(self.probability) THEN math_log(self.probability[1])
    ELSE Raise(MissingLogProb)

\* self.<field> = v. The Config of the class sets arbitrary_types_allowed
\* only, so pydantic's defaults apply: assignment is allowed and is not
\* validated.
setattr(self, field, v) == [self EXCEPT ![field] = v]

NoOp == [op |-> "none", self |-> None, n |-> 0, res |-> Return(0)]

\* p = Prediction(input=m, output=o, probability=p, log_prob=l)
Construct ==
    \E m \in Molecules, o \in Outputs, p \in OptFloats, l \in OptFloats :
        LET values == [input |-> m, output |-> o, probability |-> p, log_prob |-> l]
            r == PredictionInit(values)
        IN /\ pred' = r.val
           /\ last' = [op |-> "Prediction", self |-> Some(values), n |-> 0,
                       res |-> [kind |-> r.kind, val |-> None, err |-> r.err]]
           /\ UNCHANGED <<plist>> /\ UNCHANGED adaptervars

GetProb ==
    /\ IsSet(pred)
    /\ last' = [op |-> "get_prob", self |-> pred, n |-> 0, res |-> get_prob(pred[1])]
    /\ UNCHANGED <<pred, plist>> /\ UNCHANGED adaptervars

GetLogProb ==
    /\ IsSet(pred)
    /\ last' = [op |-> "get_log_prob", self |-> pred, n |-> 0, res |-> get_log_prob(pred[1])]
    /\ UNCHANGED <<pred, plist>> /\ UNCHANGED adaptervars

SetField ==
    /\ IsSet(pred)
    /\ \E field \in {"probability", "log_prob"}, v \in OptFloats :
        /\ pred' = Some(setattr(pred[1], field, v))
        /\ last' = [op |-> "setattr", self |-> pred, n |-> 0, res |-> Return(0)]
    /\ UNCHANGED <<plist>> /\ UNCHANGED adaptervars

----------------------------------------------------------------------------
(* class PredictionList *)

Metadata == {"{}", "{'k': 1}"}

\* Floats the predictions of a list are constructed from: 0.5 and -0.693.
ListProbs == {None, Some(500)}
ListLogProbs == {None, Some(-693)}

\* Python's seq[:n]: the first n elements, or all but the last -n.
SliceTo(s, n) ==
    IF n >= 0 THEN SubSeq(s, 1, Min(n, Len(s)))
    ELSE SubSeq(s, 1, Max(Len(s) + n, 0))

\* self.dict(): the record and, recursively, each prediction as a dict of
\* its current field values.
dict(self) ==
    [input |-> self.input,
     predictions |-> [i \in DOMAIN self.predictions |->
         [input |-> self.predictions[i].input,
          output |-> self.predictions[i].output,
          probability |-> self.predictions[i].probability,
          log_prob |-> self.predictions[i].log_prob]],
     metadata |-> self.metadata]

\* PredictionList(**fields) with the predictions given as dicts: pydantic
\* builds each one with Prediction(**d), which runs the root validator.
PredictionListInit(fields) ==
    IF \E i \in DOMAIN fields.predictions :
           PredictionInit(fields.predictions[i]).kind = "raise"
    THEN Raise("ValidationError")
    ELSE Return([fields EXCEPT !.predictions =
             [i \in DOMAIN fields.predictions |->
                 PredictionInit(fields.predictions[i]).val[1]]])

truncated(self, num_results) ==
    LET fields == dict(self)
    IN PredictionListInit(
           [fields EXCEPT !.predictions = SliceTo(fields.predictions, num_results)])

\* The Prediction objects a list is constructed from: each was made by the
\* constructor, so each passed the validator.
ListPredictions(m) ==
    {r.val[1] : r \in {q \in {PredictionInit([input |-> m, output |-> o,
                                               probability |-> p, log_prob |-> l]) :
                                   o \in Outputs, p \in ListProbs, l \in ListLogProbs} :
                           q.kind = "return"}}

SeqsUpTo(S, n) == UNION {[1..k -> S] : k \in 0..n}

\* pl = PredictionList(input=m, predictions=[...], metadata=md), the
\* predictions given as Prediction objects (kept as they are).
ConstructList ==
    \E m \in Molecules, md \in Metadata :
        \E ps \in SeqsUpTo(ListPredictions(m), MaxPreds) :
            /\ plist' = Some([input |-> m, predictions |-> ps, metadata |-> md])
            /\ last' = [op |-> "PredictionList", self |-> None, n |-> 0, res |-> Return(0)]
            /\ UNCHANGED <<pred>> /\ UNCHANGED adaptervars

\* pl.truncated(n)
Truncated ==
    /\ IsSet(plist)
    /\ \E n \in -1..(MaxPreds + 1) :
        last' = [op |-> "truncated", self |-> plist, n |-> n,
                 res |-> truncated(plist[1], n)]
    /\ UNCHANGED <<pred, plist>> /\ UNCHANGED adaptervars

\* pl.predictions[i].<field> = v
SetElemField ==
    /\ IsSet(plist)
    /\ \E i \in DOMAIN plist[1].predictions :
        \E field \in {"probability", "log_prob"} :
            \E v \in (IF field = "probability" THEN ListProbs ELSE ListLogProbs) :
                /\ plist' = Some([plist[1] EXCEPT !.predictions[i] = setattr(@, field, v)])
                /\ last' = [op |-> "setattr", self |-> None, n |-> 0, res |-> Return(0)]
    /\ UNCHANGED <<pred>> /\ UNCHANGED adaptervars

----------------------------------------------------------------------------
(* Specifications of the records. *)

AdapterIdle ==
    /\ model_dir = [pth |-> 0, json |-> 0]
    /\ ipc = "none"
    /\ weights = None
    /\ args = [top_k |-> None, raw_predictions |-> <<>>]
    /\ cpc = "idle"
    /\ call = [inputs |-> <<>>, num_results |-> 0]
    /\ idx = 0
    /\ batch_predictions = <<>>
    /\ outcome = None
    /\ prev = [outcome |-> "none", rows |-> 0]
    /\ queried = None

RecordsIdle ==
    /\ pred = None
    /\ plist = None
    /\ last = NoOp

InitPrediction == RecordsIdle /\ AdapterIdle

NextPrediction == Construct \/ GetProb \/ GetLogProb \/ SetField

SpecPrediction == InitPrediction /\ [][NextPrediction]_vars

InitList == RecordsIdle /\ AdapterIdle

NextList == ConstructList \/ Truncated \/ SetElemField

SpecList == InitList /\ [][NextList]_vars

----------------------------------------------------------------------------
(* class ReactionModel and its two specializations *)

ModelClasses == {"ForwardReactionModel", "BackwardReactionModel", "LocalRetroModel"}

\* LocalRetroModel(BackwardReactionModel) inherits the method.
is_forward(cls) ==
    CASE cls = "ForwardReactionModel" -> TRUE
      [] cls = "BackwardReactionModel" -> FALSE
      [] cls = "LocalRetroModel" -> FALSE

\* A mutant of is_backward: answers as is_forward does.
is_backward_same(cls) == is_forward(cls)

is_backward(cls) == ~is_forward(cls)

----------------------------------------------------------------------------
(* LocalRetroModel.__init__ *)

Dirs == [pth : 0..MaxFiles, json : 0..MaxFiles]

\* The models load_model may return: for each molecule, how many candidate
\* edits the model has for it, and whether the best-ranked of them fails to
\* decode into reactants.
Weights == [Molecules -> [avail : 0..MaxAvail, bad : BOOLEAN]]

\* utils.inference.get_unique_file_in_dir: the one file of the directory
\* that matches the pattern; an error unless exactly one does.
get_unique_file_in_dir(dir, pattern) ==
    IF dir[pattern] = 1 THEN Return(pattern)
    ELSE Raise("ConfigurationError: expected a unique match")

\* A mutant of the checkpoint lookup: the path is looked for lazily, the
\* construction goes on.
FoundCheckpointLazily(dir) == Return("pth")

FoundCheckpoint(dir) == get_unique_file_in_dir(dir, "pth")

FoundConfig(dir) == get_unique_file_in_dir(dir, "json")

\* LocalRetroModel(model_dir): the call starts.
InitBegin ==
    /\ ipc \in {"none", "raised"}
    /\ \E d \in Dirs : model_dir' = d
    /\ ipc' = "begun"
    /\ UNCHANGED <<weights, args, cpc, call, idx, batch_predictions, outcome, prev, queried>>
    /\ UNCHANGED recvars

\* "model_path": get_unique_file_in_dir(model_dir, pattern="*.pth")
InitModelPath ==
    /\ ipc = "begun"
    /\ ipc' = IF FoundCheckpoint(model_dir).kind = "raise" THEN "raised" ELSE "model_path"
    /\ UNCHANGED <<model_dir, weights, args, cpc, call, idx, batch_predictions, outcome, prev, queried>>
    /\ UNCHANGED recvars

\* "config_path": get_unique_file_in_dir(model_dir, pattern="*.json"), and
\* self.args = init_featurizer({...})
InitConfigPath ==
    /\ ipc = "model_path"
    /\ ipc' = IF FoundConfig(model_dir).kind = "raise" THEN "raised" ELSE "args"
    /\ UNCHANGED <<model_dir, weights, args, cpc, call, idx, batch_predictions, outcome, prev, queried>>
    /\ UNCHANGED recvars

\* self.model = load_model(self.args)
InitLoadModel ==
    /\ ipc = "args"
    /\ \E w \in Weights : weights' = Some(w)
    /\ ipc' = "model"
    /\ UNCHANGED <<model_dir, args, cpc, call, idx, batch_predictions, outcome, prev, queried>>
    /\ UNCHANGED recvars

\* load_templates(self.args); __init__ returns and the instance exists.
InitLoadTemplates ==
    /\ ipc = "model"
    /\ ipc' = "ready"
    /\ UNCHANGED <<model_dir, weights, args, cpc, call, idx, batch_predictions, outcome, prev, queried>>
    /\ UNCHANGED recvars

\* m.is_forward() and m.is_backward() on an instance of the class; an
\* instance of LocalRetroModel exists once its __init__ has returned.
QueryDirection ==
    /\ \E cls \in ModelClasses :
        /\ cls = "LocalRetroModel" => ipc = "ready"
        /\ queried' = Some([cls |-> cls, is_forward |-> is_forward(cls),
                            is_backward |-> is_backward(cls)])
    /\ UNCHANGED <<model_dir, ipc, weights, args, cpc, call, idx, batch_predictions, outcome, prev>>
    /\ UNCHANGED recvars

----------------------------------------------------------------------------
(* LocalRetroModel.__call__ and _build_batch_predictions *)

\* The score of the model's k-th best edit, in ten-thousandths.
EditScore(k) == (9004 \div k)

\* LocalRetro's combined_edit(graph, atom_logits, bond_logits, top_num): the
\* top_num best edits of the molecule's graph, best first, or all the edits
\* the model has for the molecule when these are fewer.
combined_edit(w, mol, top_num) ==
    [k \in 1..Min(w[mol].avail, top_num) |->
        [src |-> mol, rank |-> k, score |-> EditScore(k)]]

\* f"{score:.3f}": ten-thousandths rounded to thousandths.
Format3f(x) == (x + 5) \div 10

\* The list comprehension over range(num_results): one rendered string per
\* index, and an IndexError when the model gave fewer edits than that.
raw_predictions_of(edits, num_results) ==
    IF Len(edits) < num_results THEN Raise("IndexError")
    ELSE Return([i \in 1..num_results |->
                    [src |-> edits[i].src, rank |-> edits[i].rank,
                     score |-> Format3f(edits[i].score)]])

\* A mutant of the start of _build_batch_predictions: raw_predictions is not
\* emptied.
ResetKeepsRawPredictions(a, num_results) == [a EXCEPT !.top_k = Some(num_results)]

\* self.args["top_k"] = num_results; self.args["raw_predictions"] = []
ResetScratch(a, num_results) ==
    [a EXCEPT !.top_k = Some(num_results), !.raw_predictions = <<>>]

\* LocalRetro's get_k_predictions(test_id, args)[1][0], evaluated: row
\* test_id of args["raw_predictions"] decoded into (reactants, score) pairs,
\* best first, skipping the edits that do not decode and stopping at
\* args["top_k"] results.
get_k_predictions(test_id, a, w) ==
    IF test_id \notin DOMAIN a.raw_predictions THEN Raise("IndexError")
    ELSE LET row == a.raw_predictions[test_id]
             Decodes(e) == ~(w[row.smiles].bad /\ e.rank = 1)
             good == SelectSeq(row.raw, Decodes)
         IN Return([k \in 1..Min(a.top_k[1], Len(good)) |->
                       [output |-> [product |-> row.smiles, src |-> good[k].src,
                                    rank |-> good[k].rank],
                        probability |-> good[k].score]])

\* utils.inference.process_raw_smiles_outputs(input, output_list,
\* kwargs_list): one Prediction per decoded candidate, in the same order, in
\* a PredictionList for the input.
process_raw_smiles_outputs(input, raw_results) ==
    [input |-> input,
     predictions |-> [k \in DOMAIN raw_results |->
         PredictionInit([input |-> input, output |-> raw_results[k].output,
                         probability |-> Some(raw_results[k].probability),
                         log_prob |-> None]).val[1]],
     metadata |-> "{}"]

\* A mutant of the second loop: every input is decoded from the first row.
RawResultsOfFirstRow(i) == get_k_predictions(1, args, weights[1])

\* get_k_predictions(test_id=idx, args=self.args) in the second loop.
RawResults(i) == get_k_predictions(i, args, weights[1])

Batches == UNION {[1..k -> Molecules] : k \in 1..MaxInputs}

\* model(inputs, num_results): _mols_to_batch, predict and the softmaxes,
\* then the first lines of _build_batch_predictions.
CallBegin ==
    /\ ipc = "ready"
    /\ cpc \in {"idle", "returned", "raised"}
    /\ \E inputs \in Batches, num_results \in 0..MaxResults :
        /\ call' = [inputs |-> inputs, num_results |-> num_results]
        /\ args' = ResetScratch(args, num_results)
    /\ prev' = [outcome |-> cpc, rows |-> Len(args.raw_predictions)]
    /\ cpc' = "edits"
    /\ idx' = 1
    /\ batch_predictions' = <<>>
    /\ outcome' = None
    /\ UNCHANGED <<model_dir, ipc, weights, queried>>
    /\ UNCHANGED recvars

\* One round of the first loop: the edits of input idx, rendered and
\* appended to args["raw_predictions"] behind the input's SMILES.
EditStep ==
    /\ cpc = "edits"
    /\ idx <= Len(call.inputs)
    /\ LET input == call.inputs[idx]
           edits == combined_edit(weights[1], input, call.num_results)
           raw == raw_predictions_of(edits, call.num_results)
       IN IF raw.kind = "raise"
          THEN /\ cpc' = "raised"
               /\ outcome' = Some(Raise(raw.err))
               /\ UNCHANGED <<args, idx>>
          ELSE /\ args' = [args EXCEPT !.raw_predictions =
                              Append(@, [smiles |-> input, raw |-> raw.val[1]])]
               /\ idx' = idx + 1
               /\ UNCHANGED <<cpc, outcome>>
    /\ UNCHANGED <<model_dir, ipc, weights, call, batch_predictions, prev, queried>>
    /\ UNCHANGED recvars

\* The first loop ends; the second starts.
EditsDone ==
    /\ cpc = "edits"
    /\ idx > Len(call.inputs)
    /\ cpc' = "decode"
    /\ idx' = 1
    /\ UNCHANGED <<model_dir, ipc, weights, args, call, batch_predictions, outcome, prev, queried>>
    /\ UNCHANGED recvars

\* One round of the second loop: the results of input idx, packaged.
DecodeStep ==
    /\ cpc = "decode"
    /\ idx <= Len(call.inputs)
    /\ LET raw_results == RawResults(idx)
       IN IF raw_results.kind = "raise"
          THEN /\ cpc' = "raised"
               /\ outcome' = Some(Raise(raw_results.err))
               /\ UNCHANGED <<idx, batch_predictions>>
          ELSE /\ batch_predictions' = Append(batch_predictions,
                      process_raw_smiles_outputs(call.inputs[idx], raw_results.val[1]))
               /\ idx' = idx + 1
               /\ UNCHANGED <<cpc, outcome>>
    /\ UNCHANGED <<model_dir, ipc, weights, args, call, prev, queried>>
    /\ UNCHANGED recvars

\* return batch_predictions
CallReturn ==
    /\ cpc = "decode"
    /\ idx > Len(call.inputs)
    /\ cpc' = "returned"
    /\ outcome' = Some(Return(batch_predictions))
    /\ UNCHANGED <<model_dir, ipc, weights, args, call, idx, batch_predictions, prev, queried>>
    /\ UNCHANGED recvars

----------------------------------------------------------------------------
(* Specification of the models and of the adapter. *)

Init == RecordsIdle /\ AdapterIdle

Next ==
    \/ InitBegin
    \/ InitModelPath
    \/ InitConfigPath
    \/ InitLoadModel
    \/ InitLoadTemplates
    \/ QueryDirection
    \/ CallBegin
    \/ EditStep
    \/ EditsDone
    \/ DecodeStep
    \/ CallReturn

Spec == Init /\ [][Next]_vars

----------------------------------------------------------------------------
(* Properties of Prediction, under SpecPrediction. *)

BothSet(v) == IsSet(v.probability) /\ IsSet(v.log_prob)

\* C1: constructing a Prediction fails with a validation error when both
\* probability and log_prob are given and succeeds otherwise; a failed
\* construction makes no object, and a successful one keeps both fields as
\* they were given.
C1_ConstructionValidated ==
    last.op = "Prediction" =>
        IF BothSet(last.self[1])
        THEN last.res.kind = "raise" /\ last.res.err = "ValidationError" /\ pred = None
        ELSE last.res.kind = "return" /\ pred = last.self

C1_Witness ==
    /\ last.op = "Prediction"
    /\ BothSet(last.self[1])
    /\ last.res.kind = "raise"
    /\ pred = None

\* The documented ranges of the two fields: probability in [0, 1] and
\* log_prob <= 0.
InDocumentedRange(v) ==
    /\ IsSet(v.probability) => (0 <= v.probability[1] /\ v.probability[1] <= 1000)
    /\ IsSet(v.log_prob) => v.log_prob[1] <= 0

\* C2 as claimed, on the records within the documented ranges: get_prob()
\* returns probability when set, otherwise exp(log_prob) when set, otherwise
\* fails with the missing-confidence error; get_log_prob() returns log_prob
\* when set, otherwise log(probability) when set, otherwise fails with the
\* missing-confidence error; neither fails when one of the fields is set.
C2_AccessorsNeverFailWhenSet ==
    (last.op \in {"get_prob", "get_log_prob"} /\ InDocumentedRange(last.self[1])) =>
        LET s == last.self[1]
        IN /\ last.op = "get_prob" =>
                IF IsSet(s.probability) THEN last.res = Return(s.probability[1])
                ELSE IF IsSet(s.log_prob) THEN last.res.kind = "return"
                ELSE last.res = Raise(MissingProb)
           /\ last.op = "get_log_prob" =>
                IF IsSet(s.log_prob) THEN last.res = Return(s.log_prob[1])
                ELSE IF IsSet(s.probability) THEN last.res.kind = "return"
                ELSE last.res = Raise(MissingLogProb)

\* C2 as amended: as above, but get_log_prob() on a record with only a
\* probability that is <= 0 fails with math.log's domain error, and
\* get_prob() on a record with only a log_prob above ~709.78 fails with
\* math.exp's overflow error. The conversions land where they should: a
\* log_prob <= 0 gives a probability in (0, 1] and a probability in (0, 1] a
\* log-probability <= 0. The missing-confidence error is raised only when
\* both fields are absent.
C2_Accessors ==
    last.op \in {"get_prob", "get_log_prob"} =>
        LET s == last.self[1]
        IN /\ last.op = "get_prob" =>
                IF IsSet(s.probability) THEN last.res = Return(s.probability[1])
                ELSE IF IsSet(s.log_prob)
                     THEN IF s.log_prob[1] > 709782
                          THEN last.res = Raise("OverflowError: math range error")
                          ELSE /\ last.res = math_exp(s.log_prob[1])
                               /\ last.res.kind = "return"
                               /\ s.log_prob[1] <= 0 =>
                                    (0 < last.res.val[1] /\ last.res.val[1] <= 1000)
                               /\ s.log_prob[1] > 0 => last.res.val[1] > 1000
                ELSE last.res = Raise(MissingProb)
           /\ last.op = "get_log_prob" =>
                IF IsSet(s.log_prob) THEN last.res = Return(s.log_prob[1])
                ELSE IF IsSet(s.probability)
                     THEN IF s.probability[1] <= 0
                          THEN last.res = Raise("ValueError: math domain error")
                          ELSE /\ last.res = math_log(s.probability[1])
                               /\ last.res.kind = "return"
                               /\ s.probability[1] <= 1000 => last.res.val[1] <= 0
                               /\ s.probability[1] > 1000 => last.res.val[1] > 0
                ELSE last.res = Raise(MissingLogProb)
           /\ last.res.err \in {MissingProb, MissingLogProb} =>
                (~IsSet(s.probability) /\ ~IsSet(s.log_prob))

\* get_log_prob() on a record with probability 0.0, a value of the
\* documented range, has failed.
C2_Witness ==
    /\ last.op = "get_log_prob"
    /\ last.self[1].probability = Some(0)
    /\ last.self[1].log_prob = None
    /\ last.res = Raise("ValueError: math domain error")

\* C7: Prediction is an immutable record: no accessor and no assignment to
\* a field changes a field value, so a record never holds both a probability
\* and a log_prob.
C7_Immutable ==
    /\ last.op \in {"get_prob", "get_log_prob", "setattr"} => pred = last.self
    /\ IsSet(pred) => ~BothSet(pred[1])

\* C8: a constructed Prediction has its probability, when set, within
\* [0, 1] and its log_prob, when set, <= 0.
C8_RangesEnforced ==
    (last.op = "Prediction" /\ IsSet(pred)) => InDocumentedRange(pred[1])

----------------------------------------------------------------------------
(* Properties of PredictionList, under SpecList. *)

\* C3: for a list of k predictions and n >= 0, truncated(n) returns a list
\* whose predictions are the first min(k, n) of the original in the same
\* order and whose input and metadata are the original's, and the original is
\* unchanged.
C3_Truncated ==
    (last.op = "truncated" /\ last.n >= 0) =>
        LET self == last.self[1]
            m == Min(Len(self.predictions), last.n)
        IN /\ last.res.kind = "return"
           /\ Len(last.res.val[1].predictions) = m
           /\ \A i \in 1..m : last.res.val[1].predictions[i] = self.predictions[i]
           /\ last.res.val[1].input = self.input
           /\ last.res.val[1].metadata = self.metadata
           /\ plist = last.self

----------------------------------------------------------------------------
(* Properties of the models and of the adapter, under Spec. *)

\* C4: is_backward() is the negation of is_forward(): a forward model
\* answers (true, false), a backward model and the LocalRetro adapter
\* (false, true).
C4_Directions ==
    IsSet(queried) =>
        LET q == queried[1]
        IN /\ q.is_backward = ~q.is_forward
           /\ q.cls = "ForwardReactionModel" => (q.is_forward /\ ~q.is_backward)
           /\ q.cls \in {"BackwardReactionModel", "LocalRetroModel"} =>
                (~q.is_forward /\ q.is_backward)

C4_Witness ==
    /\ IsSet(queried)
    /\ queried[1].cls = "LocalRetroModel"
    /\ queried[1].is_backward
    /\ ~queried[1].is_forward

\* What a call makes of one input when nothing but the input, num_results
\* and the loaded model is looked at.
ExpectedRaw(w, mol, n) == raw_predictions_of(combined_edit(w, mol, n), n)

ExpectedList(w, mol, n) ==
    process_raw_smiles_outputs(mol,
        get_k_predictions(1,
            [top_k |-> Some(n),
             raw_predictions |-> <<[smiles |-> mol, raw |-> ExpectedRaw(w, mol, n).val[1]]>>],
            w).val[1])

ExpectedOutcome(w, inputs, n) ==
    IF \E i \in DOMAIN inputs : ExpectedRaw(w, inputs[i], n).kind = "raise"
    THEN Raise("IndexError")
    ELSE Return([i \in DOMAIN inputs |-> ExpectedList(w, inputs[i], n)])

\* C5: a call that returns gives one PredictionList per input, in the order
\* of the inputs; the i-th list's input is the i-th input and its predictions
\* are those of the i-th input's candidates, also when a molecule is given
\* twice.
C5_OnePerInput ==
    cpc = "returned" =>
        LET result == outcome[1].val[1]
        IN /\ Len(result) = Len(call.inputs)
           /\ \A i \in DOMAIN call.inputs :
                /\ result[i].input = call.inputs[i]
                /\ \A k \in DOMAIN result[i].predictions :
                     /\ result[i].predictions[k].input = call.inputs[i]
                     /\ result[i].predictions[k].output.product = call.inputs[i]
                     /\ result[i].predictions[k].output.src = call.inputs[i]
                /\ result[i].predictions =
                     ExpectedList(weights[1], call.inputs[i], call.num_results).predictions

\* A call with the same molecule twice has returned two lists with
\* predictions.
C5_Witness ==
    /\ cpc = "returned"
    /\ Len(call.inputs) = 2
    /\ call.inputs[1] = call.inputs[2]
    /\ Len(outcome[1].val[1]) = 2
    /\ Len(outcome[1].val[1][1].predictions) > 0
    /\ Len(outcome[1].val[1][2].predictions) > 0

\* C6: num_results is an upper bound: every returned list has at most
\* num_results predictions, and a call for which the model has fewer than
\* num_results candidates for some input returns normally, with a shorter
\* list.
C6_ShorterListsReturned ==
    /\ cpc = "returned" =>
         \A i \in DOMAIN outcome[1].val[1] :
             Len(outcome[1].val[1][i].predictions) <= call.num_results
    /\ (cpc \in {"returned", "raised"}
          /\ \E i \in DOMAIN call.inputs :
                weights[1][call.inputs[i]].avail < call.num_results)
         => (cpc = "returned" /\ outcome[1].kind = "return")

\* C9: with a model directory in which the checkpoint or the config file is
\* not the only one of its kind, the construction fails with a configuration
\* error before the model is loaded; no instance exists and no call is made.
C9_FailsAtConstruction ==
    (model_dir.pth # 1 \/ model_dir.json # 1) =>
        /\ ipc \in {"none", "begun", "model_path", "raised"}
        /\ ipc = "model_path" => model_dir.pth = 1
        /\ weights = None
        /\ cpc = "idle"
        /\ outcome = None

C9_Witness ==
    /\ ipc = "raised"
    /\ model_dir.pth = 0
    /\ model_dir.json = 1
    /\ weights = None

\* C10: the outcome of a call is decided by its inputs and its num_results
\* (and the loaded model) alone: top_k and raw_predictions are this call's
\* from its first step on, whatever earlier calls left in them.
C10_CallsIndependent ==
    /\ cpc \in {"edits", "decode", "returned", "raised"} =>
         /\ args.top_k = Some(call.num_results)
         /\ Len(args.raw_predictions) <= Len(call.inputs)
         /\ \A i \in DOMAIN args.raw_predictions :
               args.raw_predictions[i] =
                   [smiles |-> call.inputs[i],
                    raw |-> ExpectedRaw(weights[1], call.inputs[i], call.num_results).val[1]]
    /\ cpc \in {"returned", "raised"} =>
         outcome = Some(ExpectedOutcome(weights[1], call.inputs, call.num_results))

\* A call has returned predictions after an earlier call failed part-way
\* and left a row in raw_predictions.
C10_Witness ==
    /\ cpc = "returned"
    /\ prev.outcome = "raised"
    /\ prev.rows > 0
    /\ \E i \in DOMAIN outcome[1].val[1] : Len(outcome[1].val[1][i].predictions) > 0

============================================================================
